---- MODULE Spec2Model ----
(***************************************************************************)
(* Roster Extractor (src/app.py): a Streamlit script that is re-run from   *)
(* top to bottom on every user action.  The model covers                   *)
(*   - the header normaliser  _fix_headers        (src/app.py:59-68)       *)
(*   - the match extractor    _extract_matches    (src/app.py:70-86)       *)
(*   - the time bucketing     _week_start, _filter_by_week, YearMonth      *)
(*   - the month menu and render_weekly_view      (src/app.py:186-217,     *)
(*                                                  287-325)               *)
(*   - the session flow: password gate, last-link prompt, source           *)
(*     selection and the last_link.txt file       (src/app.py:18-38,       *)
(*                                                  220-285)               *)
(* Python strings are sequences of one-character strings, so that          *)
(* lower(), strip(), split("|", 1), substring search and string ordering   *)
(* are computed the way the code computes them.  Dates are proleptic       *)
(* Gregorian ordinals (date.toordinal()); NaT is the null date.            *)
(***************************************************************************)
EXTENDS Integers, Sequences, FiniteSets, TLC

VARIABLES
    raw,            \* the RawGrid read from the sheet (pd.read_excel, header=None)
    target_name,    \* the sidebar's "Name to search", stripped
    pc,             \* how far the processing of the source has got
    wide,           \* _fix_headers(raw)
    matches,        \* _extract_matches(wide, target_name)
    week_key,       \* the WeekStart key computed for the date of a match record
    today,          \* date.today() / pd.Timestamp.today()
    session,        \* st.session_state
    last_link_file, \* the content of last_link.txt, NoFile when it does not exist
    widgets,        \* the values the widgets hold between runs
    run,            \* what the last run of the script did and showed
    hist            \* history of the session: links used, accepted, failed

vars == <<raw, target_name, pc, wide, matches, week_key, today, session, last_link_file, widgets, run, hist>>

-----------------------------------------------------------------------------
(* Bounds of the model *)

MaxRows == 3
MaxCols == 3
MaxMatches == 2
GridCols == 4
MaxDataRows == 2
MaxDays == 70

-----------------------------------------------------------------------------
(* Python str: characters, their order, lower(), strip(), `in`, split *)

\* The characters the model uses, in code-point order.
Alphabet ==
    << " ", "+", "-", "0", "1", "2", "3", "4", "5", "6", "7", "8", "9",
       "A", "B", "D", "M", "N", "T", "W",
       "a", "b", "d", "e", "k", "m", "n", "t", "w", "x", "y", "|" >>

Ord(c) == CHOOSE i \in 1..Len(Alphabet) : Alphabet[i] = c

\* str.lower() on one character
LowerChar(c) ==
    CASE c = "A" -> "a"
      [] c = "B" -> "b"
      [] c = "D" -> "d"
      [] c = "M" -> "m"
      [] c = "N" -> "n"
      [] c = "T" -> "t"
      [] c = "W" -> "w"
      [] OTHER -> c

Lower(s) == [i \in 1..Len(s) |-> LowerChar(s[i])]

IsSpace(c) == c = " "

RECURSIVE LStrip(_)
LStrip(s) == IF s # <<>> /\ IsSpace(Head(s)) THEN LStrip(Tail(s)) ELSE s

RECURSIVE RStrip(_)
RStrip(s) ==
    IF s # <<>> /\ IsSpace(s[Len(s)]) THEN RStrip(SubSeq(s, 1, Len(s) - 1)) ELSE s

\* str.strip()
Strip(s) == RStrip(LStrip(s))

\* sub in s
Contains(sub, s) ==
    \E i \in 0..(Len(s) - Len(sub)) : SubSeq(s, i + 1, i + Len(sub)) = sub

HasBar(s) == \E i \in 1..Len(s) : s[i] = "|"

FirstBar(s) == CHOOSE i \in 1..Len(s) : s[i] = "|" /\ \A j \in 1..(i - 1) : s[j] # "|"

\* [x.strip() for x in col.split("|", 1)]
SplitPlaceShift(col) ==
    LET i == FirstBar(col)
    IN  [place |-> Strip(SubSeq(col, 1, i - 1)),
         shift |-> Strip(SubSeq(col, i + 1, Len(col)))]

\* s < t for Python strings (lexicographic by code point)
RECURSIVE StrLess(_, _)
StrLess(s, t) ==
    IF t = <<>> THEN FALSE
    ELSE IF s = <<>> THEN TRUE
    ELSE IF Head(s) # Head(t) THEN Ord(Head(s)) < Ord(Head(t))
    ELSE StrLess(Tail(s), Tail(t))

-----------------------------------------------------------------------------
(* Cells of the sheet *)

NaN == [t |-> "nan", s |-> <<>>, n |-> 0]
Text(s) == [t |-> "str", s |-> s, n |-> 0]
Num(k) == [t |-> "num", s |-> <<>>, n |-> k]
DateCell(d) == [t |-> "date", s |-> <<>>, n |-> d]

Digit(k) == <<"0", "1", "2", "3", "4", "5", "6", "7", "8", "9">>[k + 1]

\* str(x) of a header cell: a missing label becomes the text "nan"
PyStr(cell) ==
    CASE cell.t = "str" -> cell.s
      [] cell.t = "nan" -> <<"n", "a", "n">>
      [] cell.t = "num" -> <<Digit(cell.n)>>
      [] OTHER -> <<>>

\* Series.ffill(): a missing cell takes the nearest value to its left
RECURSIVE FFill(_)
FFill(row) ==
    IF Len(row) <= 1 THEN row
    ELSE LET init == FFill(SubSeq(row, 1, Len(row) - 1))
             last == row[Len(row)]
         IN  Append(init, IF last.t = "nan" THEN init[Len(init)] ELSE last)

-----------------------------------------------------------------------------
(* Header Normalizer: _fix_headers *)

\* A RawGrid: nrows x ncols cells, cells[r][c] (1-based; the code's row 0 is row 1)
Grid(nr, nc, cells) == [nrows |-> nr, ncols |-> nc, cells |-> cells]

NoGrid == Grid(0, 0, <<>>)

NaT == 0

\* date(y, m, d).toordinal()
IsLeap(y) == y % 4 = 0 /\ (y % 100 # 0 \/ y % 400 = 0)

Ordinal(y, m, d) ==
    LET p == y - 1
    IN  p * 365 + (p \div 4) - (p \div 100) + (p \div 400)
        + <<0, 31, 59, 90, 120, 151, 181, 212, 243, 273, 304, 334>>[m]
        + (IF m > 2 /\ IsLeap(y) THEN 1 ELSE 0) + d

\* pd.to_datetime of a bare number counts from the epoch, 1970-01-01
EpochOrdinal == Ordinal(1970, 1, 1)

\* _safe_to_datetime on one cell: errors="coerce" turns what does not parse into NaT
_safe_to_datetime(cell) ==
    CASE cell.t = "date" -> cell.n
      [] cell.t = "num" -> EpochOrdinal
      [] OTHER -> NaT

ColDate == <<"D", "a", "t", "e">>
ColWeekday == <<"W", "e", "e", "k", "d", "a", "y">>
Sep == <<" ", "|", " ">>

\* headers = [f"{str(p)} | {str(s)}" for p, s in zip(places, shifts)]
CompositeId(p, s) == PyStr(p) \o Sep \o PyStr(s)

Headers(df) ==
    LET places == FFill(df.cells[1])
        shifts == FFill(df.cells[2])
    IN  [c \in 1..df.ncols |-> CompositeId(places[c], shifts[c])]

\* out.rename(columns={out.columns[0]: "Date", out.columns[1]: "Weekday"}):
\* the mapping is applied to every column label, and of two equal keys of the
\* dict literal the second one stays.
RenameLabel(h, lab) ==
    IF lab = h[2] THEN ColWeekday
    ELSE IF lab = h[1] THEN ColDate
    ELSE lab

Renamed(h) == [c \in 1..Len(h) |-> RenameLabel(h, h[c])]

Failed(err) == [ok |-> FALSE, err |-> err, columns |-> <<>>, rows |-> <<>>, Date |-> <<>>]

NoTable == Failed("none")

ColumnsNamed(cols, lab) == {c \in 1..Len(cols) : cols[c] = lab}

\* a normaliser that renames only the columns that exist, so that a grid of
\* fewer than two columns passes
FixHeadersLenient(df) ==
    IF df.nrows < 2 THEN Failed("IndexError")
    ELSE LET data == SubSeq(df.cells, 3, df.nrows)
         IN  IF df.ncols < 2
             THEN [ok |-> TRUE, err |-> "",
                   columns |-> [c \in 1..df.ncols |-> ColDate],
                   rows |-> data,
                   Date |-> [i \in 1..Len(data) |-> NaT]]
             ELSE LET cols == Renamed(Headers(df))
                      nd   == Cardinality(ColumnsNamed(cols, ColDate))
                  IN  IF nd = 0 THEN Failed("KeyError")
                      ELSE IF nd > 1 THEN Failed("ValueError")
                      ELSE [ok |-> TRUE, err |-> "",
                            columns |-> cols,
                            rows |-> data,
                            Date |-> [i \in 1..Len(data) |-> _safe_to_datetime(data[i][1])]]

_fix_headers(df) ==
    IF df.nrows < 2 THEN Failed("IndexError")                \* df.iloc[0], df.iloc[1]
    ELSE IF df.ncols < 2 THEN Failed("IndexError")           \* out.columns[0], out.columns[1]
    ELSE
        LET cols == Renamed(Headers(df))
            data == SubSeq(df.cells, 3, df.nrows)            \* out.drop([0, 1])
            nd   == Cardinality(ColumnsNamed(cols, ColDate))
        IN  IF nd = 0 THEN Failed("KeyError")                \* out["Date"] does not exist
            ELSE IF nd > 1 THEN Failed("ValueError")         \* to_datetime of a DataFrame
            ELSE [ok |-> TRUE, err |-> "",
                  columns |-> cols,
                  rows |-> data,
                  Date |-> [i \in 1..Len(data) |-> _safe_to_datetime(data[i][1])]]

-----------------------------------------------------------------------------
(* Match Extractor: _extract_matches *)

Rec(d, w, p, s, t) == [Date |-> d, Weekday |-> w, Place |-> p, Shift |-> s, CellText |-> t]

\* df.loc[i, "Weekday"]: the cell, or one value per column (a Series) when
\* several columns carry the label "Weekday"; a list of cells here
WeekdayAt(df, i) ==
    LET ws == SelectSeq([c \in 1..Len(df.columns) |-> c],
                        LAMBDA c : df.columns[c] = ColWeekday)
    IN  [j \in 1..Len(ws) |-> df.rows[i][ws[j]]]

\* What enumerate(df[col]) yields: the cells of the column top to bottom when
\* the label is unique; the column labels themselves when df[col] is a
\* DataFrame (several columns carry that label).
ColumnItems(df, c) ==
    LET k == Cardinality(ColumnsNamed(df.columns, df.columns[c]))
    IN  IF k = 1 THEN [i \in 1..Len(df.rows) |-> df.rows[i][c]]
        ELSE [i \in 1..k |-> Text(df.columns[c])]

IsMatch(val, name_l) == val.t = "str" /\ Contains(name_l, Lower(val.s))

\* the records one column contributes; ok is FALSE when df.loc[i, "Date"] raises
\* KeyError (i is no row label)
RECURSIVE ItemRecords(_, _, _, _, _)
ItemRecords(df, ps, items, name_l, i) ==
    IF i > Len(items) THEN [ok |-> TRUE, recs |-> <<>>]
    ELSE LET rest == ItemRecords(df, ps, items, name_l, i + 1)
         IN  IF ~IsMatch(items[i], name_l) THEN rest
             ELSE IF i > Len(df.rows) THEN [ok |-> FALSE, recs |-> <<>>]
             ELSE [ok |-> rest.ok,
                   recs |-> <<Rec(df.Date[i], WeekdayAt(df, i), ps.place, ps.shift,
                                  Strip(items[i].s))>> \o rest.recs]

ColumnRecords(df, c, name_l) ==
    IF ~HasBar(df.columns[c]) THEN [ok |-> TRUE, recs |-> <<>>]
    ELSE ItemRecords(df, SplitPlaceShift(df.columns[c]), ColumnItems(df, c), name_l, 1)

RECURSIVE ScanColumns(_, _, _)
ScanColumns(df, c, name_l) ==
    IF c > Len(df.columns) THEN [ok |-> TRUE, recs |-> <<>>]
    ELSE LET here == ColumnRecords(df, c, name_l)
             rest == ScanColumns(df, c + 1, name_l)
         IN  [ok |-> here.ok /\ rest.ok, recs |-> here.recs \o rest.recs]

\* for col in df.columns[2:] ...
_extract_matches(df, name) ==
    LET r == ScanColumns(df, 3, Lower(name))
    IN  IF r.ok THEN r ELSE [ok |-> FALSE, recs |-> <<>>]

-----------------------------------------------------------------------------
(* Time Bucketer: weekday, _week_start, _filter_by_week, YearMonth *)

\* date.weekday(): Monday is 0; ordinal 1 (0001-01-01) is a Monday
Weekday(d) == (d + 6) % 7

\* a week key that takes the Sunday on or before d
WeekStartOnSunday(d) == IF d = NaT THEN d ELSE d - (d % 7)

\* _week_start: the date minus its weekday; a null date is returned as it is
_week_start(d) == IF d = NaT THEN d ELSE d - Weekday(d)

\* the (year, month) of an ordinal, as datetime computes it (_ord2ymd)
DaysBeforeMonth == <<0, 31, 59, 90, 120, 151, 181, 212, 243, 273, 304, 334>>

OrdToYearMonth(d) ==
    LET n0   == d - 1
        n400 == n0 \div 146097
        r400 == n0 % 146097
        n100 == r400 \div 36524
        r100 == r400 % 36524
        n4   == r100 \div 1461
        r4   == r100 % 1461
        n1   == r4 \div 365
        n    == r4 % 365
        year == n400 * 400 + n100 * 100 + n4 * 4 + n1 + 1
        leap == n1 = 3 /\ (n4 # 24 \/ n100 = 3)
        m0   == (n + 50) \div 32
        prec == DaysBeforeMonth[m0] + (IF m0 > 2 /\ leap THEN 1 ELSE 0)
    IN  IF n1 = 4 \/ n100 = 4 THEN [y |-> year - 1, m |-> 12]
        ELSE IF prec > n THEN [y |-> year, m |-> m0 - 1]
        ELSE [y |-> year, m |-> m0]

StrNaT == <<"N", "a", "T">>

\* str(Period(d, "M")): "YYYY-MM", and "NaT" for the null date
YMStr(ym) ==
    << Digit(ym.y \div 1000), Digit((ym.y \div 100) % 10),
       Digit((ym.y \div 10) % 10), Digit(ym.y % 10), "-",
       Digit(ym.m \div 10), Digit(ym.m % 10) >>

PeriodStr(d) == IF d = NaT THEN StrNaT ELSE YMStr(OrdToYearMonth(d))

\* matches["Date"].dt.to_period("M").astype(str)
YearMonth(r) == PeriodStr(r.Date)

\* a date comparison with NaT on either side is False
DateInRange(d, lo, hi) == d # NaT /\ lo <= d /\ d <= hi

_filter_by_week(df, week_start) ==
    SelectSeq(df, LAMBDA r : DateInRange(r.Date, week_start, week_start + 6))

-----------------------------------------------------------------------------
(* sort_values: a stable sort, missing values last *)

DateLess(a, b) == a # NaT /\ (b = NaT \/ a < b)

\* the order of sort_values(["Date", "Place", "Shift"])
RowLess(a, b) ==
    \/ DateLess(a.Date, b.Date)
    \/ /\ a.Date = b.Date
       /\ \/ StrLess(a.Place, b.Place)
          \/ a.Place = b.Place /\ StrLess(a.Shift, b.Shift)

\* the order of sort_values(["WeekStart", "Date", "Place", "Shift"])
WeekRowLess(a, b) ==
    \/ DateLess(_week_start(a.Date), _week_start(b.Date))
    \/ _week_start(a.Date) = _week_start(b.Date) /\ RowLess(a, b)

\* the two lists of sort keys the code uses
ByDate == "Date, Place, Shift"
ByWeek == "WeekStart, Date, Place, Shift"

Less(by, a, b) == IF by = ByWeek THEN WeekRowLess(a, b) ELSE RowLess(a, b)

\* sort_values is stable: a row goes behind the rows it does not precede
RECURSIVE InsertSorted(_, _, _)
InsertSorted(by, x, sorted) ==
    IF sorted = <<>> THEN <<x>>
    ELSE IF Less(by, x, Head(sorted)) THEN <<x>> \o sorted
    ELSE <<Head(sorted)>> \o InsertSorted(by, x, Tail(sorted))

RECURSIVE SortBy(_, _)
SortBy(by, s) ==
    IF s = <<>> THEN <<>>
    ELSE InsertSorted(by, s[Len(s)], SortBy(by, SubSeq(s, 1, Len(s) - 1)))

Range(s) == {s[i] : i \in 1..Len(s)}

\* a set of texts as a list, greatest first: sorted(..., reverse=True)
RECURSIVE SortedDesc(_)
SortedDesc(S) ==
    IF S = {} THEN <<>>
    ELSE LET top == CHOOSE x \in S : \A y \in S : ~StrLess(x, y)
         IN  <<top>> \o SortedDesc(S \ {top})

\* the values of a list in the order of their first appearance
RECURSIVE Uniq(_)
Uniq(s) ==
    IF s = <<>> THEN <<>>
    ELSE LET init == Uniq(SubSeq(s, 1, Len(s) - 1))
         IN  IF s[Len(s)] \in Range(init) THEN init ELSE Append(init, s[Len(s)])

IndexOf(s, x) == CHOOSE i \in 1..Len(s) : s[i] = x /\ \A j \in 1..(i - 1) : s[j] # x

-----------------------------------------------------------------------------
(* View Assembler: the month menu, the month view, render_weekly_view *)

\* months = sorted(matches["YearMonth"].dropna().unique(), reverse=True).
\* The keys are texts by then (astype(str)), so dropna() finds nothing missing.
Months(ms) == SortedDesc({YearMonth(ms[i]) : i \in 1..Len(ms)})

\* default_index (1-based here): the current month's place in the menu, else the first
DefaultIndex(months, td) ==
    IF PeriodStr(td) \in Range(months) THEN IndexOf(months, PeriodStr(td)) ELSE 1

\* st.selectbox: option k when the user picked one, the default otherwise
Chosen(months, td, k) ==
    IF k \in 1..Len(months) THEN months[k] ELSE months[DefaultIndex(months, td)]

\* view = matches[matches["YearMonth"] == chosen], sorted by Date, Place, Shift
MonthView(ms, chosen) ==
    SortBy(ByDate, SelectSeq(ms, LAMBDA r : YearMonth(r) = chosen))

NoFocus == [set |-> FALSE, week |-> NaT]

\* focus_week from st.session_state["focus_mode"]
FocusWeek(mode, td) ==
    CASE mode = "this" -> [set |-> TRUE, week |-> td - Weekday(td)]
      [] mode = "next" -> [set |-> TRUE, week |-> (td - Weekday(td)) + 7]
      [] OTHER -> NoFocus

\* the three numbers of the Overview
Metrics(df) ==
    [days |-> Cardinality({df[i].Date : i \in 1..Len(df)} \ {NaT}),
     entries |-> Len(df),
     places |-> Cardinality({df[i].Place : i \in 1..Len(df)})]

\* for day, dfd in dfw.groupby(dfw["Date"].dt.date, sort=True)
RECURSIVE SortedAsc(_)
SortedAsc(S) ==
    IF S = {} THEN <<>>
    ELSE LET lo == CHOOSE x \in S : \A y \in S : x <= y
         IN  <<lo>> \o SortedAsc(S \ {lo})

DayGroups(dfw) ==
    LET days == SortedAsc({dfw[i].Date : i \in 1..Len(dfw)} \ {NaT})
    IN  [k \in 1..Len(days) |->
            [day |-> days[k],
             entries |-> SelectSeq(dfw, LAMBDA r : r.Date = days[k])]]

\* for wk, dfw in df.groupby("WeekStart", sort=False): the weeks in the order
\* they first appear, a missing key makes no group
WeekGroups(df) ==
    LET keys  == Uniq([i \in 1..Len(df) |-> _week_start(df[i].Date)])
        weeks == SelectSeq(keys, LAMBDA w : w # NaT)
    IN  [k \in 1..Len(weeks) |->
            [week |-> weeks[k],
             days |-> DayGroups(SelectSeq(df, LAMBDA r : _week_start(r.Date) = weeks[k]))]]

Focused(sorted, focus) ==
    IF focus.set THEN _filter_by_week(sorted, focus.week) ELSE sorted

\* a render_weekly_view that cuts the frame to the focus week first
RenderCountsAfterFocus(df, focus) ==
    LET cut == Focused(SortBy(ByWeek, df), focus)
    IN  [metrics |-> Metrics(cut), shown |-> WeekGroups(cut)]

\* render_weekly_view: the Overview is computed from the whole frame it is
\* given, then the frame is cut to the focus week, then grouped and shown
render_weekly_view(df, focus) ==
    LET sorted == SortBy(ByWeek, df)
    IN  [metrics |-> Metrics(sorted),
         shown   |-> WeekGroups(Focused(sorted, focus))]

NoMetrics == [days |-> -1, entries |-> -1, places |-> -1]

Blank == <<>>

\* What the script shows for the matches: src/app.py lines 287-335
ShowMatches(ms, td, mode, k) ==
    IF ms = <<>>
    THEN [stage |-> "no_matches", months |-> <<>>, chosen |-> Blank, view |-> <<>>,
          metrics |-> NoMetrics, shown |-> <<>>, export |-> <<>>, rendered |-> FALSE]
    ELSE LET months == Months(ms)
             chosen == Chosen(months, td, k)
             view   == MonthView(ms, chosen)
             r      == render_weekly_view(view, FocusWeek(mode, td))
         IN  IF view = <<>>
             THEN [stage |-> "no_entries", months |-> months, chosen |-> chosen,
                   view |-> view, metrics |-> NoMetrics, shown |-> <<>>,
                   export |-> <<>>, rendered |-> FALSE]
             ELSE [stage |-> "shown", months |-> months, chosen |-> chosen,
                   view |-> view, metrics |-> r.metrics, shown |-> r.shown,
                   export |-> view, rendered |-> TRUE]

\* the buttons of "Quick jump": src/app.py lines 309-317
Clicks == {"none", "this", "next", "all"}

FocusAfter(mode, click) == IF click = "none" THEN mode ELSE click

-----------------------------------------------------------------------------
(* Processing a source: src/app.py lines 274-338 *)

\* The result of lines 276-281: reading the sheet, _fix_headers, _extract_matches.
\* Any exception ends in the handler of line 336 with nothing shown.
Process(readable, grid, name) ==
    IF ~readable THEN [ok |-> FALSE, wide |-> NoTable, recs |-> <<>>]   \* pd.ExcelFile raises
    ELSE LET w == _fix_headers(grid)
         IN  IF ~w.ok THEN [ok |-> FALSE, wide |-> w, recs |-> <<>>]
             ELSE LET m == _extract_matches(w, name)
                  IN  [ok |-> m.ok, wide |-> w, recs |-> m.recs]

-----------------------------------------------------------------------------
(* The state before the first run, and what a run records *)

\* st.session_state; a key the script sets on first use starts at that value
Session0 ==
    [authenticated |-> FALSE, last_prompt_decided |-> FALSE,
     use_last_link |-> FALSE, focus_mode |-> "all"]

NoLink == <<>>

NoFile == [exists |-> FALSE, text |-> NoLink]

FileWith(text) == [exists |-> TRUE, text |-> text]

NoView ==
    [stage |-> "none", months |-> <<>>, chosen |-> Blank, view |-> <<>>,
     metrics |-> NoMetrics, shown |-> <<>>, export |-> <<>>, rendered |-> FALSE]

\* the password box, the uploader, the URL box, the month menu (0: untouched)
Widgets0 == [pwd |-> "", uploaded |-> "none", drive_url |-> <<>>, choice |-> 0]

NoRun ==
    [stage |-> "init", gate |-> FALSE, prompt |-> FALSE, file_before |-> NoFile,
     use_before |-> FALSE, use |-> FALSE, last_link |-> NoLink, uploaded |-> FALSE,
     url |-> NoLink, source |-> "none", link |-> NoLink, fetched |-> FALSE, failed |-> FALSE,
     wrote |-> 0, after_failure |-> FALSE, out |-> NoView]

Hist0 == [last_used |-> NoLink, accepted |-> NoLink, failed |-> FALSE]

-----------------------------------------------------------------------------
(* Header normalisation and match extraction applied to a grid *)

T_A == <<"A">>
T_Ma == <<"M", "a">>

Monday3June == Ordinal(2024, 6, 3)

\* cells of the grids of every small shape (the size conditions of _fix_headers)
ShapePool == {NaN, Text(T_A)}

\* rosters: two header rows over one or two data rows
PlaceLabels == {NaN, Text(T_A), Text(<<" ", "A">>), Text(<<"A", "|", "B">>)}
ShiftLabels == {NaN, Text(<<"x">>)}
CellPool == {NaN, Num(7), Text(T_Ma), Text(<<" ", "b", "+", "M", "A", " ">>)}
CellPool2 == {NaN, Text(T_Ma)}
Queries == {<<"m", "a">>, <<"b">>}

DataRow1(cells) == <<DateCell(Monday3June), Text(<<"M", "o">>)>> \o cells
DataRow2(cells) == <<Text(<<"t">>), NaN>> \o cells

\* header rows h0, h1 over a first data row d1 and the further data rows d2
RosterGrid(h0, h1, d1, d2) ==
    Grid(3 + Len(d2), Len(h1),
         <<h0, h1, DataRow1(d1)>> \o [j \in 1..Len(d2) |-> DataRow2(d2[j])])

InitCommon ==
    /\ pc = "raw"
    /\ wide = NoTable
    /\ matches = <<>>
    /\ week_key = NaT
    /\ today = Monday3June
    /\ session = Session0
    /\ last_link_file = NoFile
    /\ widgets = Widgets0
    /\ run = NoRun
    /\ hist = Hist0

InitShape ==
    /\ \E nr \in 0..MaxRows, nc \in 0..MaxCols :
          \E cells \in [1..nr -> [1..nc -> ShapePool]] : raw = Grid(nr, nc, cells)
    /\ target_name = T_A
    /\ InitCommon

InitGrid ==
    /\ \E nd \in 1..MaxDataRows, nc \in 2..GridCols :
          \E t \in [1..(nc - 1) -> PlaceLabels], h1 \in [1..nc -> ShiftLabels],
             d1 \in [1..(nc - 2) -> CellPool] :
             \E d2 \in [1..(nd - 1) -> [1..(nc - 2) -> CellPool2]] :
                raw = RosterGrid(<<NaN>> \o t, h1, d1, d2)
    /\ target_name \in Queries
    /\ InitCommon

\* wide = _fix_headers(raw), src/app.py line 280
FixHeaders ==
    /\ pc = "raw"
    /\ wide' = _fix_headers(raw)
    /\ pc' = IF wide'.ok THEN "normalized" ELSE "failed"
    /\ UNCHANGED <<raw, target_name, matches, week_key, today, session, last_link_file, widgets, run, hist>>

\* matches = _extract_matches(wide, target_name), src/app.py line 281
ExtractMatches ==
    /\ pc = "normalized"
    /\ LET m == _extract_matches(wide, target_name)
       IN  /\ matches' = m.recs
           /\ pc' = IF m.ok THEN "extracted" ELSE "failed"
    /\ UNCHANGED <<raw, target_name, wide, week_key, today, session, last_link_file, widgets, run, hist>>

GridNext == FixHeaders \/ ExtractMatches

SpecShape == InitShape /\ [][GridNext]_vars

SpecGrid == InitGrid /\ [][GridNext]_vars

-----------------------------------------------------------------------------
(* Claims about the header normaliser and the match extractor *)

Processed == pc \in {"normalized", "extracted", "failed"}

NearestLeft(row, c) ==
    LET S == {j \in 1..c : row[j].t # "nan"}
    IN  IF S = {} THEN NaN ELSE row[CHOOSE j \in S : \A k \in S : k <= j]

PlaceLabel(c) == NearestLeft(raw.cells[1], c)
ShiftLabel(c) == NearestLeft(raw.cells[2], c)

\* C5: for every grid that _fix_headers normalizes and every column index >= 2
\* (the third column on), the column id is place + " | " + shift with the
\* nearest non-blank labels at or to the left in the two header rows.
C5_CompositeIds ==
    (pc \in {"normalized", "extracted"})
        => \A c \in 3..Len(wide.columns) :
              wide.columns[c] = PyStr(PlaceLabel(c)) \o Sep \o PyStr(ShiftLabel(c))

\* the data cells in the order column by column, top to bottom within a column
CellOrder ==
    LET nd == Len(wide.rows)
        nc == Len(wide.columns)
    IN  [k \in 1..((nc - 2) * nd) |-> [c |-> 3 + ((k - 1) \div nd), i |-> 1 + ((k - 1) % nd)]]

CellMatches(pos) ==
    LET val == wide.rows[pos.i][pos.c]
    IN  val.t = "str" /\ Contains(Lower(target_name), Lower(val.s))

ExpectedMatches ==
    LET hits == SelectSeq(CellOrder, CellMatches)
    IN  [k \in 1..Len(hits) |->
            [Date |-> wide.Date[hits[k].i], CellText |-> Strip(wide.rows[hits[k].i][hits[k].c].s)]]

\* C6: _extract_matches emits exactly one record per text cell (column >= 2)
\* that contains the query case-insensitively, none for any other cell, in
\* column order and top to bottom within a column.
C6_OneRecordPerMatchingCell ==
    (wide.ok /\ pc \in {"extracted", "failed"})
        => /\ pc = "extracted"
           /\ [k \in 1..Len(matches) |->
                 [Date |-> matches[k].Date, CellText |-> matches[k].CellText]]
              = ExpectedMatches

RecordsOfColumn(c) == Range(ColumnRecords(wide, c, Lower(target_name)).recs)

PlaceShift(r) == <<r.Place, r.Shift>>

\* C7: a record emitted for a cell of column c carries the forward-filled place
\* and shift labels of c (as texts, surrounding blanks aside), and two columns
\* with different label pairs never yield records with the same (Place, Shift).
C7_PlaceShiftRoundTrip ==
    (pc = "extracted")
        => /\ \A c \in 3..Len(wide.columns) : \A r \in RecordsOfColumn(c) :
                 /\ r.Place = Strip(PyStr(PlaceLabel(c)))
                 /\ r.Shift = Strip(PyStr(ShiftLabel(c)))
           /\ \A c1, c2 \in 3..Len(wide.columns) :
                 (<<PlaceLabel(c1), ShiftLabel(c1)>> # <<PlaceLabel(c2), ShiftLabel(c2)>>)
                     => {PlaceShift(r) : r \in RecordsOfColumn(c1)}
                            \cap {PlaceShift(r) : r \in RecordsOfColumn(c2)} = {}

-----------------------------------------------------------------------------
(* The month menu and the weekly view applied to a list of match records *)

Wk == <<Text(<<"M", "o">>)>>

ViewDates ==
    { NaT, Ordinal(2024, 5, 31), Ordinal(2024, 6, 3), Ordinal(2024, 6, 9),
      Ordinal(2024, 6, 10) }

ViewRecords == { Rec(d, Wk, p, <<"x">>, T_Ma) : d \in ViewDates, p \in {T_A, <<"B">>} }

Todays == { Ordinal(2024, 6, 5), Ordinal(2025, 1, 1) }

InitView ==
    /\ raw = NoGrid
    /\ target_name = T_Ma
    /\ pc = "extracted"
    /\ wide = NoTable
    /\ \E n \in 0..MaxMatches : \E ms \in [1..n -> ViewRecords] : matches = ms
    /\ week_key = NaT
    /\ today \in Todays
    /\ session = [Session0 EXCEPT !.authenticated = TRUE]
    /\ last_link_file = NoFile
    /\ widgets = Widgets0
    /\ run = NoRun
    /\ hist = Hist0

\* lines 287-335 for the matches at hand: the menu holds choice k, the button
\* `click` of "Quick jump" was pressed (buttons exist only beside a view)
Render(k, click) ==
    LET months == IF matches = <<>> THEN <<>> ELSE Months(matches)
        mode   == IF matches = <<>> THEN session.focus_mode
                  ELSE FocusAfter(session.focus_mode, click)
    IN  /\ session' = [session EXCEPT !.focus_mode = mode]
        /\ widgets' = [widgets EXCEPT !.choice = k]
        /\ run' = [NoRun EXCEPT !.stage = "processed",
                                !.out = ShowMatches(matches, today, mode, k)]
        /\ UNCHANGED <<raw, target_name, pc, wide, matches, week_key, today, last_link_file, hist>>

\* the first run
ViewOpen == run.stage = "init" /\ Render(0, "none")

\* the user picks a month of the menu
ViewSelectMonth ==
    /\ run.stage # "init"
    /\ \E k \in 1..Len(run.out.months) : Render(k, "none")

\* the user presses This week / Next week / All month
ViewClick ==
    /\ run.out.rendered
    /\ \E click \in Clicks \ {"none"} : Render(widgets.choice, click)

ViewNext == ViewOpen \/ ViewSelectMonth \/ ViewClick

SpecView == InitView /\ [][ViewNext]_vars

-----------------------------------------------------------------------------
(* Claims about the month menu and the weekly view *)

RECURSIVE Concat(_)
Concat(ss) == IF ss = <<>> THEN <<>> ELSE Head(ss) \o Concat(Tail(ss))

\* the records shown as cards, in the order shown
ShownRecords ==
    Concat([w \in 1..Len(run.out.shown) |->
              Concat([d \in 1..Len(run.out.shown[w].days) |->
                        run.out.shown[w].days[d].entries])])

Counts(recs) ==
    [days |-> Cardinality({recs[i].Date : i \in 1..Len(recs)} \ {NaT}),
     entries |-> Len(recs),
     places |-> Cardinality({recs[i].Place : i \in 1..Len(recs)})]

\* C1, as stated: in every view mode the three counts of the Overview are the
\* counts of the records that are grouped and shown below it (zero when none
\* is).  Stated for the months of dated records, where every record of the
\* month view can be shown.
C1_CountsOverShownRecords ==
    (run.out.rendered /\ run.out.chosen # StrNaT)
        => run.out.metrics = Counts(ShownRecords)

\* C1, amended: in every view mode the three counts are those of the records of
\* the selected month, taken before the focus week cuts them down: distinct
\* non-null days, number of records, distinct places; the Overview is shown
\* only for a month that has records, and in "all month" mode a month without
\* null dates is shown whole below it.
C1_CountsOverMonthView ==
    run.out.rendered =>
        /\ run.out.view # <<>>
        /\ run.out.metrics = Counts(run.out.view)
        /\ \A i \in 1..Len(run.out.view) : YearMonth(run.out.view[i]) = run.out.chosen
        /\ Len(run.out.view)
             = Cardinality({i \in 1..Len(matches) : YearMonth(matches[i]) = run.out.chosen})
        /\ (session.focus_mode = "all" /\ run.out.chosen # StrNaT)
              => run.out.metrics = Counts(ShownRecords)

\* C1 witness: "this week" is in focus, no record of the month falls in it, so
\* nothing is shown below an Overview that counts the month's records.
C1_Witness ==
    /\ run.out.rendered
    /\ session.focus_mode = "this"
    /\ ShownRecords = <<>>
    /\ run.out.metrics.entries = 2
    /\ run.out.metrics.days = 2

DatedKeys == {OrdToYearMonth(matches[i].Date) : i \in {j \in 1..Len(matches) : matches[j].Date # NaT}}

\* C2: a record whose Date is null gives no key to the month menu and is never
\* part of the month view that is counted, grouped and exported.
C2_NullDatesExcluded ==
    (run.stage = "processed") =>
        /\ \A k \in 1..Len(run.out.months) : \E ym \in DatedKeys : run.out.months[k] = YMStr(ym)
        /\ \A i \in 1..Len(run.out.view) : run.out.view[i].Date # NaT
        /\ \A i \in 1..Len(run.out.export) : run.out.export[i].Date # NaT

MonthNumber(ym) == ym.y * 12 + ym.m

\* C3: the menu lists every distinct year-month of the match records, newest
\* first, and an untouched menu selects the current month when it is listed,
\* otherwise the newest year-month.
C3_MonthMenu ==
    (run.stage = "processed" /\ matches # <<>>) =>
        /\ Len(run.out.months) = Cardinality(DatedKeys)
        /\ \A ym \in DatedKeys : YMStr(ym) \in Range(run.out.months)
        /\ \A i, j \in 1..Len(run.out.months) : \A a, b \in DatedKeys :
              (i < j /\ run.out.months[i] = YMStr(a) /\ run.out.months[j] = YMStr(b))
                  => MonthNumber(a) > MonthNumber(b)
        /\ (widgets.choice = 0 /\ DatedKeys # {}) =>
              IF OrdToYearMonth(today) \in DatedKeys
              THEN run.out.chosen = YMStr(OrdToYearMonth(today))
              ELSE \E top \in DatedKeys :
                      /\ \A ym \in DatedKeys : MonthNumber(ym) <= MonthNumber(top)
                      /\ run.out.chosen = YMStr(top)

-----------------------------------------------------------------------------
(* The session: password gate, last-link prompt, source selection *)

\* hashlib.sha256(pwd).hexdigest() == PASSWORD_HASH, the hash of "2101"
PasswordOk(pwd) == pwd = "2101"

Passwords == {"", "0000", "2101"}

\* last_link = _f.read().strip() or None
ReadLastLink(file) == IF file.exists THEN Strip(file.text) ELSE NoLink

\* what a source holds: bytes that are no workbook, or a workbook with a sheet
Contents == {"corrupt", "nomatch", "roster"}

H_D == Text(<<"D">>)
H_W == Text(<<"W">>)
Mo == Text(<<"M", "o">>)

GridOf(content) ==
    CASE content = "nomatch" ->
            Grid(3, 3, << <<NaN, NaN, Text(T_A)>>,
                          <<H_D, H_W, Text(<<"x">>)>>,
                          <<DateCell(Monday3June), Mo, Text(<<"b">>)>> >>)
      [] content = "roster" ->
            Grid(5, 4, << <<NaN, NaN, Text(T_A), NaN>>,
                          <<H_D, H_W, Text(<<"x">>), Text(<<"y">>)>>,
                          <<DateCell(Monday3June), Mo, Text(T_Ma), NaN>>,
                          <<DateCell(Monday3June + 7), Mo, Text(<<"b">>),
                            Text(<<" ", "b", "+", "M", "A", " ">>)>>,
                          <<Text(<<"t">>), NaN, Text(<<"m", "a">>), Num(7)>> >>)
      [] OTHER -> NoGrid

UrlTexts == { <<>>, <<" ">>, <<" ", "b", " ">> }

\* a selection that puts the upload ahead of the accepted last link
SourceUploadFirst(use, last_link, uploaded, url) ==
    IF uploaded THEN "upload"
    ELSE IF use /\ last_link # NoLink THEN "last"
    ELSE IF url # NoLink THEN "url"
    ELSE "none"

\* the source of a run, lines 254-263: the accepted last link, else the
\* upload, else the pasted URL
SelectSource(use, last_link, uploaded, url) ==
    IF use /\ last_link # NoLink THEN "last"
    ELSE IF uploaded THEN "upload"
    ELSE IF url # NoLink THEN "url"
    ELSE "none"

\* a write that does not wait for the source to be read and processed
WritesAlways(ok, source_used_link) == source_used_link # NoLink

\* whether the script writes last_link.txt, line 283: the source was read and
\* processed without an exception and it came from a link
WritesLink(ok, source_used_link) == ok /\ source_used_link # NoLink

FetchOutcomes == {"fail"} \cup Contents

\* the end of a run that passed the gate: c is what the run chose, content what
\* it read, p the result of processing it, mode the focus mode, k the choice of
\* the month menu
Commit(c, content, p, mode, k) ==
    LET done   == content # "none" /\ p.ok
        writes == content # "none" /\ WritesLink(p.ok, c.used_link)
    IN  /\ session' = [authenticated |-> TRUE, last_prompt_decided |-> c.decided,
                       use_last_link |-> c.use, focus_mode |-> mode]
        /\ last_link_file' = IF c.deleted THEN NoFile
                             ELSE IF writes THEN FileWith(c.used_link)
                             ELSE last_link_file
        /\ raw' = IF content \in {"none", "corrupt"} THEN NoGrid ELSE GridOf(content)
        /\ wide' = IF content = "none" THEN NoTable ELSE p.wide
        /\ matches' = IF done THEN p.recs ELSE <<>>
        /\ pc' = IF content = "none" THEN "raw" ELSE IF done THEN "extracted" ELSE "failed"
        /\ widgets' = [c.w EXCEPT !.choice = k]
        /\ run' = [stage |-> CASE c.failed -> "fetch_failed"
                               [] content = "none" -> "idle"
                               [] ~p.ok -> "error"
                               [] OTHER -> "processed",
                   gate |-> FALSE,
                   prompt |-> c.prompt,
                   file_before |-> last_link_file,
                   use_before |-> session.use_last_link,
                   use |-> c.use,
                   last_link |-> c.last_link,
                   uploaded |-> c.uploaded,
                   url |-> c.url,
                   source |-> c.source,
                   link |-> c.link,
                   fetched |-> c.source \in {"last", "url"} /\ ~c.failed,
                   failed |-> c.failed,
                   wrote |-> IF writes THEN 1 ELSE 0,
                   after_failure |-> hist.failed,
                   out |-> IF done THEN ShowMatches(p.recs, today, mode, k) ELSE NoView]
        /\ hist' = [last_used |-> IF done /\ c.used_link # NoLink THEN c.used_link
                                  ELSE hist.last_used,
                    accepted  |-> IF c.pressed /\ c.use THEN c.last_link
                                  ELSE hist.accepted,
                    failed    |-> hist.failed \/ (c.failed /\ c.source = "last")]
        /\ UNCHANGED <<target_name, week_key, today>>

\* lines 274-325: the source is processed, the menu and the focus mode are set
Conclude(c, click, content, p) ==
    LET months == IF content # "none" /\ p.ok /\ p.recs # <<>> THEN Months(p.recs) ELSE <<>>
    IN  Commit(c, content, p,
               IF months # <<>> THEN FocusAfter(session.focus_mode, click)
               ELSE session.focus_mode,
               IF months = run.out.months THEN c.w.choice ELSE 0)

\* lines 253-272: the source is read; a download that fails leaves no source
\* and, when the last link was in use, removes last_link.txt
Fetch(c, click, fetch) ==
    LET failed  == c.source \in {"last", "url"} /\ fetch = "fail"
        content == CASE c.source = "upload" -> c.w.uploaded
                     [] c.source \in {"last", "url"} /\ ~failed -> fetch
                     [] OTHER -> "none"
    IN  Conclude([c EXCEPT !.failed = failed,
                           !.used_link = IF failed THEN NoLink ELSE c.link,
                           !.deleted = failed /\ c.use /\ c.last_link # NoLink],
                 click, content,
                 Process(content # "corrupt", GridOf(content), target_name))

\* lines 220-263: the last-link prompt and the choice of the source
Choose(w, btn, click, last_link, prompt) ==
    LET pressed  == prompt /\ btn # "none"
        use      == IF pressed THEN btn = "yes" ELSE session.use_last_link
        uploaded == w.uploaded # "none"
        url      == Strip(w.drive_url)
        source   == SelectSource(use, last_link, uploaded, url)
    IN  \E fetch \in (IF source \in {"last", "url"} THEN FetchOutcomes ELSE {"fail"}) :
           Fetch([w |-> w, prompt |-> prompt, pressed |-> pressed, use |-> use,
                  decided |-> session.last_prompt_decided \/ pressed,
                  last_link |-> last_link, uploaded |-> uploaded, url |-> url,
                  source |-> source,
                  link |-> CASE source = "last" -> last_link
                             [] source = "url" -> url
                             [] OTHER -> NoLink,
                  failed |-> FALSE, used_link |-> NoLink, deleted |-> FALSE],
                 click, fetch)

\* One run of the script with the widgets holding w; btn is the button of the
\* last-link prompt that was pressed, click the one of "Quick jump".
Script(w, btn, click) ==
    IF ~(session.authenticated \/ PasswordOk(w.pwd))
    THEN \* check_password() is False: st.stop()
         /\ run' = [NoRun EXCEPT !.stage = "stopped", !.gate = TRUE,
                                 !.file_before = last_link_file,
                                 !.use_before = session.use_last_link,
                                 !.use = session.use_last_link,
                                 !.after_failure = hist.failed]
         /\ widgets' = [w EXCEPT !.choice = 0]
         /\ UNCHANGED <<raw, target_name, pc, wide, matches, week_key, today, session,
                        last_link_file, hist>>
    ELSE Choose(w, btn, click, ReadLastLink(last_link_file),
                ReadLastLink(last_link_file) # NoLink /\ ~session.last_prompt_decided)

\* the page is opened: the first run of the script
Open ==
    /\ run.stage = "init"
    /\ Script(widgets, "none", "none")

\* the user types a password into the gate
EnterPassword ==
    /\ run.gate
    /\ \E pwd \in Passwords :
          Script([widgets EXCEPT !.pwd = pwd], "none", "none")

\* the user answers "Use the last successful link?"
AnswerPrompt ==
    /\ run.prompt
    /\ \E btn \in {"yes", "no"} : Script(widgets, btn, "none")

MainShown == run.stage \notin {"init", "stopped"}

\* the user uploads a file, or removes the uploaded file
SetUpload ==
    /\ MainShown
    /\ \E up \in {"none"} \cup Contents :
          /\ up # widgets.uploaded
          /\ Script([widgets EXCEPT !.uploaded = up], "none", "none")

\* the user edits the URL box
SetUrl ==
    /\ MainShown
    /\ \E u \in UrlTexts :
          /\ u # widgets.drive_url
          /\ Script([widgets EXCEPT !.drive_url = u], "none", "none")

\* the user picks a month of the menu
SelectMonth ==
    /\ run.out.months # <<>>
    /\ \E k \in 1..Len(run.out.months) :
          Script([widgets EXCEPT !.choice = k], "none", "none")

\* the user presses This week / Next week / All month
ClickFocus ==
    /\ run.out.rendered
    /\ \E click \in Clicks \ {"none"} :
          Script(widgets, "none", click)

\* the script is run again with nothing changed
Rerun ==
    /\ MainShown
    /\ Script(widgets, "none", "none")

Init ==
    /\ raw = NoGrid
    /\ target_name = T_Ma
    /\ pc = "raw"
    /\ wide = NoTable
    /\ matches = <<>>
    /\ week_key = NaT
    /\ today = Ordinal(2024, 6, 5)
    /\ session = Session0
    /\ last_link_file \in {NoFile, FileWith(<<>>), FileWith(<<"a">>)}
    /\ widgets = Widgets0
    /\ run = NoRun
    /\ hist = [Hist0 EXCEPT !.last_used = ReadLastLink(last_link_file)]

Next ==
    \/ Open
    \/ EnterPassword
    \/ AnswerPrompt
    \/ SetUpload
    \/ SetUrl
    \/ SelectMonth
    \/ ClickFocus
    \/ Rerun

Spec == Init /\ [][Next]_vars

-----------------------------------------------------------------------------
(* The week key of a record's date *)

FirstDay == Ordinal(2023, 12, 25)

InitWeek ==
    /\ raw = NoGrid
    /\ target_name = T_Ma
    /\ pc = "extracted"
    /\ wide = NoTable
    /\ \E d \in {NaT} \cup (FirstDay..(FirstDay + MaxDays)) :
          matches = <<Rec(d, Wk, T_A, <<"x">>, T_Ma)>>
    /\ week_key = NaT
    /\ today = Monday3June
    /\ session = Session0
    /\ last_link_file = NoFile
    /\ widgets = Widgets0
    /\ run = NoRun
    /\ hist = Hist0

\* df["WeekStart"] = df["Date"].dt.date.apply(_week_start), for one record
BucketWeek ==
    /\ pc = "extracted"
    /\ week_key' = _week_start(matches[1].Date)
    /\ pc' = "bucketed"
    /\ UNCHANGED <<raw, target_name, wide, matches, today, session, last_link_file,
                   widgets, run, hist>>

WeekNext == BucketWeek

SpecWeek == InitWeek /\ [][WeekNext]_vars

\* C8: for a non-null date d, _week_start(d) is a Monday with
\* _week_start(d) <= d < _week_start(d) + 7 days; for the null date it is null.
\* (Day 1 of the calendar, 0001-01-01, is a Monday.)
C8_WeekStartIsMonday ==
    (pc = "bucketed") =>
        LET d == matches[1].Date
        IN  IF d = NaT THEN week_key = NaT
            ELSE /\ (week_key - 1) % 7 = 0
                 /\ week_key <= d
                 /\ d < week_key + 7

\* C8 witness: the week key of a Sunday was computed, six days before it.
C8_Witness ==
    pc = "bucketed" /\ matches[1].Date # NaT /\ week_key = matches[1].Date - 6

-----------------------------------------------------------------------------
(* Claims about the session *)

PassedGate == run.stage \notin {"init", "stopped"}

LinkRun == run.source \in {"last", "url"}

\* C9: last_link.txt is written only in a run whose source was a remote link
\* that was fetched, at most once, with the link of that run; a run that uses an
\* upload or whose download fails does not write it; a link that is present is
\* the last remote link a run fetched and processed.
C9_LastLinkWrites ==
    /\ run.wrote \in {0, 1}
    /\ (run.wrote = 1)
          => (LinkRun /\ run.fetched /\ run.link # NoLink
              /\ last_link_file = FileWith(run.link))
    /\ (run.stage # "init" /\ last_link_file # run.file_before)
          => \/ run.wrote = 1
             \/ run.failed /\ run.source = "last" /\ ~last_link_file.exists
    /\ (run.source \in {"upload", "none"} \/ run.failed \/ ~PassedGate)
          => run.wrote = 0
    /\ (ReadLastLink(last_link_file) # NoLink)
          => ReadLastLink(last_link_file) = hist.last_used

\* C9 witness: a run fetched and processed the pasted link b and wrote it over
\* the link a of an earlier session.
C9_Witness ==
    /\ run.source = "url"
    /\ run.wrote = 1
    /\ run.file_before = FileWith(<<"a">>)
    /\ last_link_file = FileWith(<<"b">>)
    /\ hist.last_used = <<"b">>

Precedence ==
    PassedGate =>
        /\ run.last_link = ReadLastLink(run.file_before)
        /\ run.source = CASE run.use /\ run.last_link # NoLink -> "last"
                          [] run.uploaded -> "upload"
                          [] run.url # NoLink -> "url"
                          [] OTHER -> "none"
        /\ run.link = CASE run.source = "last" -> run.last_link
                        [] run.source = "url" -> run.url
                        [] OTHER -> NoLink

AcceptedLinkRules ==
    /\ run.use_before => run.use
    /\ (PassedGate /\ run.use /\ ~run.after_failure)
          => (run.source = "last" /\ run.link = hist.accepted)
    /\ (run.failed /\ run.source = "last") => ~last_link_file.exists

\* C10, as stated: one source per run by the precedence last link, upload,
\* pasted URL; once the last link is accepted every run uses it until a download
\* of it fails; the link is then deleted and the later runs use the upload or
\* the pasted URL.
C10_LaterRunsFallBack ==
    /\ Precedence
    /\ AcceptedLinkRules
    /\ (PassedGate /\ run.after_failure) => run.source # "last"

\* C10, amended: as stated, but after the failed download the runs use the
\* upload or the pasted URL only while no link is persisted; a pasted URL that
\* is fetched and processed is persisted and, the session still accepting the
\* last link, is the source of the runs after it, ahead of upload and URL box.
C10_SourcePrecedence ==
    /\ Precedence
    /\ AcceptedLinkRules
    /\ (PassedGate /\ run.after_failure /\ run.last_link = NoLink)
          => run.source = (IF run.uploaded THEN "upload"
                           ELSE IF run.url # NoLink THEN "url" ELSE "none")
    /\ (PassedGate /\ run.after_failure /\ run.last_link # NoLink)
          => (run.source = "last" /\ run.link = hist.last_used)

\* C10 witness: after a failed download of the accepted link a run uses the
\* persisted link again, with a file uploaded and a URL in the box.
C10_Witness ==
    /\ run.after_failure
    /\ run.source = "last"
    /\ run.uploaded
    /\ run.url # NoLink
    /\ ~run.failed

====
